---- MODULE Spec2Model ----
(***************************************************************************)
(* HeapStack (src/heapstack.h): a bump-pointer arena.  A HeapStack owns a  *)
(* singly linked chain of blocks of blockSize bytes; newPtr carves byte    *)
(* ranges out of the tail block and appends a block when the tail is full; *)
(* flatten copies the used bytes of every block into one buffer.           *)
(*                                                                         *)
(* Memory is modelled byte by byte.  A block lives at a heap address       *)
(* (1, 2, ...); a char* into a block is the pair (block, offset).  A byte  *)
(* that was never written holds Indeterminate.  Sizes are int64_t in the   *)
(* source; every size the model draws is far below 2^63, so no sum wraps.  *)
(***************************************************************************)
EXTENDS Integers, Sequences, FiniteSets, TLC

\* ---------------------------------------------------------------- constants
\* The null pointer.
NULL == 0

\* headerSize = sizeof(block_s) - 1: an 8-byte pointer, an 8-byte int64_t
\* and the packed 1-byte data array, minus that byte (LP64).
headerSize == 16

\* blockSize(blocks4k * 4096LL): the unit of the constructor's argument.
Unit4k == 4096

\* The constructor arguments the model tries.
Blocks4kArgs == {1}

\* The constructor arguments tried when the claim is about the argument:
\* with 0, blockSize is 0 and dataSize is -headerSize.
CtorArgs == {0, 1}

\* The number of newPtr calls of one run.
MaxCalls == 3

\* The number of newPtr calls of a run that goes on to the queries and the
\* destructor.
MaxLifeCalls == 2

\* The content of a byte no one has written yet (new char[] does not
\* initialise), and of a byte read outside the storage of its block.
Indeterminate == -1

VARIABLES
    hs,       \* the HeapStack object: blockSize, dataSize, blocks, bytes, head, tail
    heap,     \* the blocks on the heap: address -> block_s
    calls,    \* history: the newPtr calls that returned, in call order
    written,  \* history: the calls whose returned range the caller has filled
    last,     \* what the caller's most recent call handed back
    threads,  \* the threads inside newPtr: position and locals of each
    raced     \* history: a thread has stepped while another was inside newPtr

vars == <<hs, heap, calls, written, last, threads, raced>>

\* ------------------------------------------------------------ the object
\* HeapStack::HeapStack(blocks4k)
HeapStack(blocks4k) ==
    [ blockSize |-> blocks4k * Unit4k,
      dataSize  |-> blocks4k * Unit4k - headerSize,
      blocks    |-> 0,
      bytes     |-> 0,
      head      |-> NULL,
      tail      |-> NULL ]

\* A char* into the data of a block; the null char*.
CharPtr(block, offset) == [block |-> block, offset |-> offset]
NullPtr == CharPtr(NULL, 0)

\* A machine state the member functions work on: the object, the heap, and
\* what the call hands back (thrown: std::bad_alloc left the call; ret: the
\* returned pointer).
Machine(o, h) == [hs |-> o, heap |-> h, thrown |-> FALSE, ret |-> NullPtr]

\* The address operator new[] returns: blocks are only released by the
\* destructor, so the next free address is the number of live blocks plus 1.
FreshAddress(h) == Cardinality(DOMAIN h) + 1

\* (block_s*) new char[blockSize], as newBlock initialises it: the data
\* bytes are left as they were.
FreshBlock(o) ==
    [ nextBlock |-> NULL,
      endOffset |-> 0,
      data      |-> [i \in 1..o.dataSize |-> Indeterminate] ]

\* newBlock with blocks++ moved in front of the allocation: a failed
\* allocation leaves the counter bumped.
newBlock_CountsFirst(st, allocOk) ==
    LET o1 == [st.hs EXCEPT !.blocks = @ + 1] IN
    IF ~allocOk
    THEN [st EXCEPT !.thrown = TRUE, !.hs = o1]
    ELSE
      LET block == FreshAddress(st.heap)
          h1 == [a \in DOMAIN st.heap \cup {block} |->
                    IF a = block THEN FreshBlock(st.hs) ELSE st.heap[a]]
          h2 == IF st.hs.tail # NULL
                THEN [h1 EXCEPT ![st.hs.tail].nextBlock = block]
                ELSE h1
          o2 == IF o1.head = NULL THEN [o1 EXCEPT !.head = block] ELSE o1
      IN [st EXCEPT !.heap = h2, !.hs = [o2 EXCEPT !.tail = block]]

\* newBlock without "tail->nextBlock = block": the new block is the tail but
\* hangs on no link.
newBlock_NoLink(st, allocOk) ==
    IF ~allocOk
    THEN [st EXCEPT !.thrown = TRUE]
    ELSE
      LET block == FreshAddress(st.heap)
          h1 == [a \in DOMAIN st.heap \cup {block} |->
                    IF a = block THEN FreshBlock(st.hs) ELSE st.heap[a]]
          o1 == [st.hs EXCEPT !.blocks = @ + 1]
          o2 == IF o1.head = NULL THEN [o1 EXCEPT !.head = block] ELSE o1
      IN [st EXCEPT !.heap = h1, !.hs = [o2 EXCEPT !.tail = block]]

\* newBlock without the "if (!head)" guard: head moves along with tail.
newBlock_HeadMoves(st, allocOk) ==
    IF ~allocOk
    THEN [st EXCEPT !.thrown = TRUE]
    ELSE
      LET block == FreshAddress(st.heap)
          h1 == [a \in DOMAIN st.heap \cup {block} |->
                    IF a = block THEN FreshBlock(st.hs) ELSE st.heap[a]]
          h2 == IF st.hs.tail # NULL
                THEN [h1 EXCEPT ![st.hs.tail].nextBlock = block]
                ELSE h1
          o1 == [st.hs EXCEPT !.blocks = @ + 1]
      IN [st EXCEPT !.heap = h2,
                    !.hs = [o1 EXCEPT !.head = block, !.tail = block]]

\* HeapStack::newBlock; allocOk tells whether new char[blockSize] succeeds.
newBlock(st, allocOk) ==
    IF ~allocOk
    THEN [st EXCEPT !.thrown = TRUE]
    ELSE
      LET block == FreshAddress(st.heap)
          h1 == [a \in DOMAIN st.heap \cup {block} |->
                    IF a = block THEN FreshBlock(st.hs) ELSE st.heap[a]]
          h2 == IF st.hs.tail # NULL
                THEN [h1 EXCEPT ![st.hs.tail].nextBlock = block]
                ELSE h1
          o1 == [st.hs EXCEPT !.blocks = @ + 1]
          o2 == IF o1.head = NULL THEN [o1 EXCEPT !.head = block] ELSE o1
      IN [st EXCEPT !.heap = h2, !.hs = [o2 EXCEPT !.tail = block]]

\* newPtr without "tail->endOffset += size": the tail is never used up.
newPtr_NoBump(st, size, allocOk) ==
    LET s1 == IF \/ st.hs.tail = NULL
                 \/ st.heap[st.hs.tail].endOffset + size >= st.hs.dataSize
              THEN newBlock(st, allocOk)
              ELSE st
    IN IF s1.thrown
       THEN s1
       ELSE [s1 EXCEPT !.hs.bytes = @ + size,
                       !.ret = CharPtr(s1.hs.tail, s1.heap[s1.hs.tail].endOffset)]

\* newPtr without "bytes += size".
newPtr_NoBytes(st, size, allocOk) ==
    LET s1 == IF \/ st.hs.tail = NULL
                 \/ st.heap[st.hs.tail].endOffset + size >= st.hs.dataSize
              THEN newBlock(st, allocOk)
              ELSE st
    IN IF s1.thrown
       THEN s1
       ELSE [s1 EXCEPT !.heap[s1.hs.tail].endOffset = @ + size,
                       !.ret = CharPtr(s1.hs.tail, s1.heap[s1.hs.tail].endOffset)]

\* newPtr with "head->endOffset += size" for "tail->endOffset += size".
newPtr_BumpsHead(st, size, allocOk) ==
    LET s1 == IF \/ st.hs.tail = NULL
                 \/ st.heap[st.hs.tail].endOffset + size >= st.hs.dataSize
              THEN newBlock(st, allocOk)
              ELSE st
    IN IF s1.thrown
       THEN s1
       ELSE [s1 EXCEPT !.heap[s1.hs.head].endOffset = @ + size,
                       !.hs.bytes = @ + size,
                       !.ret = CharPtr(s1.hs.tail, s1.heap[s1.hs.tail].endOffset)]

\* newPtr with the capacity check dropped: every call opens a block.
newPtr_AlwaysNewBlock(st, size, allocOk) ==
    LET s1 == newBlock(st, allocOk)
    IN IF s1.thrown
       THEN s1
       ELSE [s1 EXCEPT !.heap[s1.hs.tail].endOffset = @ + size,
                       !.hs.bytes = @ + size,
                       !.ret = CharPtr(s1.hs.tail, s1.heap[s1.hs.tail].endOffset)]

\* newPtr with ">" for ">=" in the capacity check.
newPtr_StrictCheck(st, size, allocOk) ==
    LET s1 == IF \/ st.hs.tail = NULL
                 \/ st.heap[st.hs.tail].endOffset + size > st.hs.dataSize
              THEN newBlock(st, allocOk)
              ELSE st
    IN IF s1.thrown
       THEN s1
       ELSE [s1 EXCEPT !.heap[s1.hs.tail].endOffset = @ + size,
                       !.hs.bytes = @ + size,
                       !.ret = CharPtr(s1.hs.tail, s1.heap[s1.hs.tail].endOffset)]

\* newPtr with "while" for "if" in front of newBlock(), the loop cut after
\* its second round: a request the new block cannot take opens another one.
newPtr_RetryTwice(st, size, allocOk) ==
    LET s1 == IF \/ st.hs.tail = NULL
                 \/ st.heap[st.hs.tail].endOffset + size >= st.hs.dataSize
              THEN newBlock(st, allocOk)
              ELSE st
        s2 == IF /\ ~s1.thrown
                 /\ s1.heap[s1.hs.tail].endOffset + size >= s1.hs.dataSize
              THEN newBlock(s1, allocOk)
              ELSE s1
    IN IF s2.thrown
       THEN s2
       ELSE [s2 EXCEPT !.heap[s2.hs.tail].endOffset = @ + size,
                       !.hs.bytes = @ + size,
                       !.ret = CharPtr(s2.hs.tail, s2.heap[s2.hs.tail].endOffset)]

\* HeapStack::newPtr
newPtr(st, size, allocOk) ==
    LET s1 == IF \/ st.hs.tail = NULL
                 \/ st.heap[st.hs.tail].endOffset + size >= st.hs.dataSize
              THEN newBlock(st, allocOk)
              ELSE st
    IN IF s1.thrown
       THEN s1
       ELSE
         LET tail == s1.hs.tail
             t == CharPtr(tail, s1.heap[tail].endOffset)
         IN [s1 EXCEPT !.heap[tail].endOffset = @ + size,
                       !.hs.bytes = @ + size,
                       !.ret = t]

\* HeapStack::getBytes
getBytes(o) == o.bytes

\* HeapStack::getAllocated
getAllocated(o) == o.blocks * o.blockSize

\* HeapStack::getBlocks
getBlocks(o) == o.blocks

\* n indeterminate bytes.
Garbage(n) == [i \in 1..n |-> Indeterminate]

\* The n bytes memcpy reads from data[0] on: data[i] is the (i+1)-th element
\* of b.data; past the dataSize bytes of storage the read leaves the block
\* and yields indeterminate bytes.
ReadData(b, n) ==
    IF n <= Len(b.data)
    THEN SubSeq(b.data, 1, n)
    ELSE b.data \o Garbage(n - Len(b.data))

\* memcpy(write, block->data, block->endOffset) into the buffer dst, write
\* being an offset into dst: the n bytes from write on are replaced (a copy
\* that runs past the end of dst shows as bytes behind it).
memcpy(dst, write, b, n) ==
    SubSeq(dst, 1, write) \o ReadData(b, n) \o SubSeq(dst, write + n + 1, Len(dst))

\* The while loop of flatten: block walks the chain, write moves on by each
\* block's endOffset.
RECURSIVE flattenLoop(_, _, _, _)
flattenLoop(h, block, write, dst) ==
    IF block = NULL
    THEN dst
    ELSE flattenLoop(h, h[block].nextBlock, write + h[block].endOffset,
                     memcpy(dst, write, h[block], h[block].endOffset))

\* flatten with the walk started at tail instead of head.
flatten_FromTail(o, h) ==
    flattenLoop(h, o.tail, 0, Garbage(o.bytes))

\* HeapStack::flatten(): the content of the returned new char[bytes].
flatten(o, h) ==
    flattenLoop(h, o.head, 0, Garbage(o.bytes))

\* HeapStack::flatten(int64_t& length)
flattenLength(o, h) == [length |-> o.bytes, buff |-> flatten(o, h)]

\* flatten(length) with head itself, not a local block pointer, walking the
\* chain: head is null when the loop ends.
flattenCall_ConsumesHead(st, allocOk) ==
    IF ~allocOk
    THEN [m |-> [st EXCEPT !.thrown = TRUE], length |-> st.hs.bytes, buff |-> <<>>]
    ELSE [m |-> [st EXCEPT !.hs.head = NULL],
          length |-> flattenLength(st.hs, st.heap).length,
          buff |-> flattenLength(st.hs, st.heap).buff]

\* A call of flatten(length) on a machine state: the state it leaves (m),
\* the caller's length and the returned buffer.  length = bytes is assigned
\* before new char[bytes] is tried, so the caller's length is set also when
\* std::bad_alloc leaves the call, and then no buffer is returned.
flattenCall(st, allocOk) ==
    IF ~allocOk
    THEN [m |-> [st EXCEPT !.thrown = TRUE], length |-> st.hs.bytes, buff |-> <<>>]
    ELSE [m |-> st,
          length |-> flattenLength(st.hs, st.heap).length,
          buff |-> flattenLength(st.hs, st.heap).buff]

\* HeapStack::currentData: the ways a call can end.  With a tail it returns
\* tail->data.  With tail null, "tail->data" is undefined behaviour: the
\* build either hands back the address of data in a block at address null
\* (no byte is read to form it) or the process dies.
currentData(st) ==
    IF st.hs.tail # NULL
    THEN { [m |-> [st EXCEPT !.ret = CharPtr(st.hs.tail, 0)], end |-> "ok"] }
    ELSE { [m |-> [st EXCEPT !.ret = CharPtr(NULL, 0)], end |-> "ok"],
           [m |-> st, end |-> "crash"] }

\* delete[] block: the block leaves the heap.
Delete(h, block) == [a \in DOMAIN h \ {block} |-> h[a]]

\* The while loop of the destructor: t = block->nextBlock; delete[] block;
\* block = t.  released lists the blocks in the order of their delete[].
RECURSIVE destructorLoop(_, _, _)
destructorLoop(h, block, released) ==
    IF block = NULL
    THEN [heap |-> h, released |-> released]
    ELSE destructorLoop(Delete(h, block), h[block].nextBlock,
                        Append(released, block))

\* The destructor with the walk started at tail instead of head.
destructor_FromTail(st) ==
    destructorLoop(st.heap, st.hs.tail, <<>>)

\* HeapStack::~HeapStack
destructor(st) ==
    destructorLoop(st.heap, st.hs.head, <<>>)

\* ------------------------------------------------------------ the caller
\* The sizes the caller asks for: nothing, one byte, half the data region,
\* one byte short of it, all of it, one byte more, and more than a whole
\* block; never a negative size.
Sizes(o) ==
    { size \in { 0, 1, o.dataSize \div 2, o.dataSize - 1, o.dataSize,
                 o.dataSize + 1, o.blockSize + 1 } : size >= 0 }

\* The known pattern the caller writes into the range of call i: byte j.
PatternByte(i, j) == (i * 37 + j) % 256

\* The size bytes of the pattern of call i.
Pattern(i, size) == [j \in 1..size |-> PatternByte(i, j - 1)]

\* What a call hands back to the caller: the operation, how it ended
\* ("ok", or "bad_alloc" when operator new[] threw), the pointer newPtr
\* returned, and the buffer and length flatten(length) returned.
Outcome(op, outcome, ret, length, buff) ==
    [op |-> op, outcome |-> outcome, ret |-> ret, length |-> length, buff |-> buff]

\* The threads that share the arena.
Threads == {"A", "B"}

\* A thread that has not called newPtr: its position, the size it asks for,
\* and the locals and temporaries of newPtr and newBlock (block: the new
\* block of newBlock; t: the pointer newPtr returns; ptr, val: the address
\* and the value a read-modify-write statement has loaded, cleared when
\* the statement or the call is over).
Idle ==
    [pc |-> "idle", size |-> 0, block |-> NULL, t |-> NullPtr,
     ptr |-> NULL, val |-> 0]

Init ==
    /\ \E blocks4k \in Blocks4kArgs : hs = HeapStack(blocks4k)
    /\ heap = <<>>
    /\ calls = <<>>
    /\ written = {}
    /\ last = Outcome("HeapStack", "ok", NullPtr, 0, <<>>)
    /\ threads = [th \in Threads |-> Idle]
    /\ raced = FALSE

\* The range of call i lies inside the storage of its block.
InStorage(i) ==
    /\ calls[i].ret.offset >= 0
    /\ calls[i].ret.offset + calls[i].size <= hs.dataSize

\* The caller can fill the range of call i: it has bytes, all in storage.
Fillable(i) == calls[i].size > 0 /\ InStorage(i)

\* Every range the caller can fill is filled.
AllFilled == \A i \in DOMAIN calls : Fillable(i) => i \in written

\* The object exists and the process runs: no call has ended in a crash and
\* the destructor has not run.
Alive == last.outcome # "crash" /\ last.op # "~HeapStack"

\* The new char[blockSize] of newBlock has room for the header of block_s.
HeaderFits(o) == o.blockSize >= headerSize

\* The ways the header writes of newBlock can end: inside the allocation
\* they succeed; outside it (blockSize < headerSize) they are undefined
\* behaviour, and the build either goes on as if the bytes behind the
\* allocation belonged to the block or the process dies.
HeaderWriteDies(o) == IF HeaderFits(o) THEN {FALSE} ELSE BOOLEAN

\* The caller calls newPtr(size).  It fills a range, if ever, before it asks
\* for the next one (newPtr never reads the data bytes).
NewPtr ==
    /\ Alive
    /\ Len(calls) < MaxCalls
    /\ AllFilled
    /\ \E size \in Sizes(hs), allocOk \in BOOLEAN, dies \in HeaderWriteDies(hs) :
         LET r == newPtr(Machine(hs, heap), size, allocOk) IN
           IF dies /\ r.hs.blocks # hs.blocks
           THEN /\ last' = Outcome("newPtr", "crash", NullPtr, 0, <<>>)
                /\ UNCHANGED <<hs, heap, calls>>
           ELSE /\ hs' = r.hs
                /\ heap' = r.heap
                /\ calls' = IF r.thrown
                            THEN calls
                            ELSE Append(calls, [size |-> size, ret |-> r.ret])
                /\ last' = Outcome("newPtr",
                                   IF r.thrown THEN "bad_alloc" ELSE "ok",
                                   r.ret, 0, <<>>)
    /\ UNCHANGED <<written, threads, raced>>

\* The caller fills the range a newPtr call returned with its pattern.
WritePattern ==
    /\ Alive
    /\ \E i \in DOMAIN calls \ written :
         /\ Fillable(i)
         /\ LET p == calls[i].ret IN
              heap' = [heap EXCEPT ![p.block].data =
                         SubSeq(@, 1, p.offset)
                         \o Pattern(i, calls[i].size)
                         \o SubSeq(@, p.offset + calls[i].size + 1, Len(@))]
         /\ written' = written \cup {i}
    /\ last' = Outcome("write", "ok", NullPtr, 0, <<>>)
    /\ UNCHANGED <<hs, calls, threads, raced>>

\* The caller calls flatten(length); new char[bytes] may fail, and then
\* nothing is returned.
Flatten ==
    /\ Alive
    /\ \E allocOk \in BOOLEAN :
         LET r == flattenCall(Machine(hs, heap), allocOk) IN
           /\ hs' = r.m.hs
           /\ heap' = r.m.heap
           /\ last' = Outcome("flatten", IF r.m.thrown THEN "bad_alloc" ELSE "ok",
                              NullPtr, r.length, r.buff)
    /\ UNCHANGED <<calls, written, threads, raced>>

Next == NewPtr \/ WritePattern \/ Flatten

Spec == Init /\ [][Next]_vars

\* What a counter query hands back.
Value(op, value) == [op |-> op, outcome |-> "ok", value |-> value]

\* The caller calls getBytes().
GetBytes ==
    /\ Alive
    /\ last' = Value("getBytes", getBytes(hs))
    /\ UNCHANGED <<hs, heap, calls, written, threads, raced>>

\* The caller calls getAllocated().
GetAllocated ==
    /\ Alive
    /\ last' = Value("getAllocated", getAllocated(hs))
    /\ UNCHANGED <<hs, heap, calls, written, threads, raced>>

\* The caller calls getBlocks().
GetBlocks ==
    /\ Alive
    /\ last' = Value("getBlocks", getBlocks(hs))
    /\ UNCHANGED <<hs, heap, calls, written, threads, raced>>

\* The caller calls currentData().
CurrentData ==
    /\ Alive
    /\ \E r \in currentData(Machine(hs, heap)) :
         /\ hs' = r.m.hs
         /\ heap' = r.m.heap
         /\ last' = Outcome("currentData", r.end, r.m.ret, 0, <<>>)
    /\ UNCHANGED <<calls, written, threads, raced>>

\* The HeapStack object is destroyed.
Destroy ==
    /\ Alive
    /\ LET r == destructor(Machine(hs, heap)) IN
         /\ heap' = r.heap
         /\ last' = [op |-> "~HeapStack", outcome |-> "ok", released |-> r.released]
    /\ UNCHANGED <<hs, calls, written, threads, raced>>

\* A newPtr call of a run that goes on to the queries and the destructor.
NewPtrLife ==
    /\ Len(calls) < MaxLifeCalls
    /\ NewPtr

\* The whole life of an arena: every member function, up to destruction.
NextLife ==
    \/ NewPtrLife \/ WritePattern \/ Flatten
    \/ GetBytes \/ GetAllocated \/ GetBlocks \/ CurrentData
    \/ Destroy

SpecLife == Init /\ [][NextLife]_vars

\* Construction with any of the arguments CtorArgs, and the life after it.
InitCtor ==
    /\ \E blocks4k \in CtorArgs : hs = HeapStack(blocks4k)
    /\ heap = <<>>
    /\ calls = <<>>
    /\ written = {}
    /\ last = Outcome("HeapStack", "ok", NullPtr, 0, <<>>)
    /\ threads = [th \in Threads |-> Idle]
    /\ raced = FALSE

SpecCtor == InitCtor /\ [][NextLife]_vars

\* ------------------------------------------------------ two threads
\* The sizes the threads ask for: one byte, and one byte short of the data
\* region (the next request after it needs a new block).
RaceSizes(o) == {1, o.dataSize - 1}

\* "tail->endOffset += size" that loses its store.
StoreEndOffset_Dropped(h, block, value) == h

\* The store of "tail->endOffset += size" into the block it loaded from.
StoreEndOffset(h, block, value) == [h EXCEPT ![block].endOffset = value]

\* A thread is inside newPtr.
Inside(th) == threads[th].pc \notin {"idle", "done"}

\* Thread th takes a step to position pc with its locals set as in loc;
\* the step races when another thread is inside newPtr.
Goto(th, loc, pc) ==
    /\ threads' = [threads EXCEPT ![th] = [loc EXCEPT !.pc = pc]]
    /\ raced' = (raced \/ \E other \in Threads \ {th} : Inside(other))

\* newPtr, line 109: the check on tail and tail->endOffset.
Check(th) ==
    /\ threads[th].pc = "idle"
    /\ \E size \in RaceSizes(hs) :
         Goto(th, [threads[th] EXCEPT !.size = size],
              IF \/ hs.tail = NULL
                 \/ heap[hs.tail].endOffset + size >= hs.dataSize
              THEN "newBlock" ELSE "take")
    /\ UNCHANGED <<hs, heap, calls, written, last>>

\* newBlock, lines 182-185: the new block, with its link and offset cleared.
Allocate(th) ==
    /\ threads[th].pc = "newBlock"
    /\ LET block == FreshAddress(heap) IN
         /\ heap' = [a \in DOMAIN heap \cup {block} |->
                       IF a = block THEN FreshBlock(hs) ELSE heap[a]]
         /\ Goto(th, [threads[th] EXCEPT !.block = block], "count")
    /\ UNCHANGED <<hs, calls, written, last>>

\* newBlock, line 187: blocks++ loads the counter ...
LoadBlocks(th) ==
    /\ threads[th].pc = "count"
    /\ Goto(th, [threads[th] EXCEPT !.val = hs.blocks], "counted")
    /\ UNCHANGED <<hs, heap, calls, written, last>>

\* ... and stores it, one up.
StoreBlocks(th) ==
    /\ threads[th].pc = "counted"
    /\ hs' = [hs EXCEPT !.blocks = threads[th].val + 1]
    /\ Goto(th, [threads[th] EXCEPT !.val = 0], "link")
    /\ UNCHANGED <<heap, calls, written, last>>

\* newBlock, lines 190-191: if (tail) tail->nextBlock = block.
Link(th) ==
    /\ threads[th].pc = "link"
    /\ heap' = IF hs.tail # NULL
               THEN [heap EXCEPT ![hs.tail].nextBlock = threads[th].block]
               ELSE heap
    /\ Goto(th, threads[th], "head")
    /\ UNCHANGED <<hs, calls, written, last>>

\* newBlock, lines 193-194: if (!head) head = block.
SetHead(th) ==
    /\ threads[th].pc = "head"
    /\ hs' = IF hs.head = NULL
             THEN [hs EXCEPT !.head = threads[th].block]
             ELSE hs
    /\ Goto(th, threads[th], "tail")
    /\ UNCHANGED <<heap, calls, written, last>>

\* newBlock, line 196: tail = block.
SetTail(th) ==
    /\ threads[th].pc = "tail"
    /\ hs' = [hs EXCEPT !.tail = threads[th].block]
    /\ Goto(th, threads[th], "take")
    /\ UNCHANGED <<heap, calls, written, last>>

\* newPtr, line 113: t = tail->data + tail->endOffset.
Take(th) ==
    /\ threads[th].pc = "take"
    /\ Goto(th, [threads[th] EXCEPT
                   !.t = CharPtr(hs.tail, heap[hs.tail].endOffset)], "bump")
    /\ UNCHANGED <<hs, heap, calls, written, last>>

\* newPtr, line 114: tail->endOffset += size loads the offset of the tail ...
LoadEndOffset(th) ==
    /\ threads[th].pc = "bump"
    /\ Goto(th, [threads[th] EXCEPT !.ptr = hs.tail,
                                    !.val = heap[hs.tail].endOffset], "bumped")
    /\ UNCHANGED <<hs, heap, calls, written, last>>

\* ... and stores it, size up, into the same block.
BumpEndOffset(th) ==
    /\ threads[th].pc = "bumped"
    /\ heap' = StoreEndOffset(heap, threads[th].ptr,
                              threads[th].val + threads[th].size)
    /\ Goto(th, [threads[th] EXCEPT !.ptr = NULL, !.val = 0], "bytes")
    /\ UNCHANGED <<hs, calls, written, last>>

\* newPtr, line 116: bytes += size loads the counter ...
LoadBytes(th) ==
    /\ threads[th].pc = "bytes"
    /\ Goto(th, [threads[th] EXCEPT !.val = hs.bytes], "summed")
    /\ UNCHANGED <<hs, heap, calls, written, last>>

\* ... and stores it, size up.
StoreBytes(th) ==
    /\ threads[th].pc = "summed"
    /\ hs' = [hs EXCEPT !.bytes = threads[th].val + threads[th].size]
    /\ Goto(th, [threads[th] EXCEPT !.val = 0], "return")
    /\ UNCHANGED <<heap, calls, written, last>>

\* newPtr, line 118: return t.
Return(th) ==
    /\ threads[th].pc = "return"
    /\ calls' = Append(calls, [size |-> threads[th].size, ret |-> threads[th].t])
    /\ Goto(th, Idle, "done")
    /\ UNCHANGED <<hs, heap, written, last>>

\* Each thread calls newPtr once; the steps of the two calls interleave in
\* any order, one access to the shared members at a time.
NextRace ==
    \E th \in Threads :
      \/ Check(th) \/ Allocate(th) \/ LoadBlocks(th) \/ StoreBlocks(th)
      \/ Link(th) \/ SetHead(th) \/ SetTail(th)
      \/ Take(th) \/ LoadEndOffset(th) \/ BumpEndOffset(th)
      \/ LoadBytes(th) \/ StoreBytes(th) \/ Return(th)

SpecRace == Init /\ [][NextRace]_vars

\* ------------------------------------------------------------- the claims
\* The blocks a walk from block along the nextBlock links visits, as the
\* loops of flatten and of the destructor do; at most fuel of them.
RECURSIVE Walk(_, _, _)
Walk(h, block, fuel) ==
    IF block = NULL \/ fuel = 0 \/ block \notin DOMAIN h
    THEN <<>>
    ELSE <<block>> \o Walk(h, h[block].nextBlock, fuel - 1)

\* The chain of the arena: the blocks reachable from head.
Chain == Walk(heap, hs.head, Cardinality(DOMAIN heap) + 1)

InChain(block) == \E k \in DOMAIN Chain : Chain[k] = block

\* The sum of endOffset over the blocks of the chain.
RECURSIVE SumUsedFrom(_)
SumUsedFrom(k) ==
    IF k > Len(Chain) THEN 0 ELSE heap[Chain[k]].endOffset + SumUsedFrom(k + 1)

SumUsed == SumUsedFrom(1)

\* The sum of the sizes of the first n calls that returned.
RECURSIVE SumSizes(_)
SumSizes(n) == IF n = 0 THEN 0 ELSE SumSizes(n - 1) + calls[n].size

\* The patterns of the first n calls that returned, one after the other.
RECURSIVE ConcatPatterns(_)
ConcatPatterns(n) ==
    IF n = 0 THEN <<>> ELSE ConcatPatterns(n - 1) \o Pattern(n, calls[n].size)

\* Every call that returned asked for at most dataSize bytes.
AllFit == \A i \in DOMAIN calls : calls[i].size <= hs.dataSize

\* The bytes of the range of call i, as they are in its block now.
RangeBytes(i) ==
    SubSeq(heap[calls[i].ret.block].data,
           calls[i].ret.offset + 1, calls[i].ret.offset + calls[i].size)

\* The ranges of calls i and j share no byte.
Disjoint(i, j) ==
    \/ calls[i].ret.block # calls[j].ret.block
    \/ calls[i].ret.offset + calls[i].size <= calls[j].ret.offset
    \/ calls[j].ret.offset + calls[j].size <= calls[i].ret.offset

\* C1: when every requested size is within 0..dataSize, any two returned
\* ranges are disjoint, every returned range lies inside the dataSize bytes
\* of one block of the chain, and a range the caller has filled still holds
\* the bytes written into it (nothing moved it or wrote over it).
C1_RangesDisjointInStorage ==
    AllFit =>
      /\ \A i, j \in DOMAIN calls : i # j => Disjoint(i, j)
      /\ \A i \in DOMAIN calls :
            /\ InChain(calls[i].ret.block)
            /\ InStorage(i)
            /\ i \in written => RangeBytes(i) = Pattern(i, calls[i].size)

\* Three filled ranges, two of them side by side in the first block and
\* the third in a second block.
C1_Witness ==
    /\ AllFit
    /\ Len(calls) = 3
    /\ written = {1, 2, 3}
    /\ calls[1].ret.block = calls[2].ret.block
    /\ calls[2].ret.offset > 0
    /\ calls[3].ret.block # calls[1].ret.block

\* C2: when every requested size is within 0..dataSize, getBytes() is the
\* sum of the sizes of the calls that returned.
C2_BytesIsSumOfSizes ==
    AllFit => getBytes(hs) = SumSizes(Len(calls))

\* Three calls that returned, with more bytes than one block holds.
C2_Witness ==
    /\ AllFit
    /\ Len(calls) = 3
    /\ getBytes(hs) > hs.dataSize
    /\ \A i \in DOMAIN calls : calls[i].size > 0

\* C3: when every requested size is within 0..dataSize and the caller has
\* filled every returned range, flatten(length) returns length = getBytes()
\* and a buffer of that many bytes that is the patterns of the calls, one
\* after the other in call order.
C3_FlattenIsConcatenation ==
    (AllFit /\ AllFilled /\ last.op = "flatten" /\ last.outcome = "ok") =>
      /\ last.length = getBytes(hs)
      /\ Len(last.buff) = last.length
      /\ last.buff = ConcatPatterns(Len(calls))

\* A flatten of three filled ranges that lie in more than one block.
C3_Witness ==
    /\ AllFit /\ AllFilled
    /\ last.op = "flatten" /\ last.outcome = "ok"
    /\ Len(calls) = 3
    /\ \A i \in DOMAIN calls : calls[i].size > 0
    /\ hs.blocks >= 2
    /\ calls[1].ret.block = calls[2].ret.block

\* C4: a newPtr call with size > dataSize ends in an error: it returns no
\* range and leaves every block's endOffset as it was, so no returned range
\* belongs to such a call and no endOffset is past dataSize.
C4_OversizedRejected ==
    /\ \A i \in DOMAIN calls : ~(calls[i].size > hs.dataSize)
    /\ \A k \in DOMAIN Chain : heap[Chain[k]].endOffset <= hs.dataSize

\* C5: every block of the chain has 0 <= endOffset <= dataSize, and no
\* returned range extends past the storage of its block, whatever
\* non-negative sizes were asked for.
C5_UsedWithinCapacity ==
    /\ \A k \in DOMAIN Chain :
          /\ 0 <= heap[Chain[k]].endOffset
          /\ heap[Chain[k]].endOffset <= hs.dataSize
    /\ \A i \in DOMAIN calls : InStorage(i)

\* The number of blocks of the reference packing after the first n calls,
\* and the bytes used in its last block: the first call opens block 1, a
\* later call opens a block only when used + size > dataSize.
RECURSIVE RefPacking(_)
RefPacking(n) ==
    IF n = 0 THEN [blocks |-> 0, used |-> 0]
    ELSE LET r == RefPacking(n - 1) IN
         IF n = 1 \/ r.used + calls[n].size > hs.dataSize
         THEN [blocks |-> r.blocks + 1, used |-> calls[n].size]
         ELSE [blocks |-> r.blocks, used |-> r.used + calls[n].size]

\* C6: when every requested size is within 0..dataSize, getBlocks() is the
\* number of blocks of the reference packing, in which a request that
\* exactly fills the tail stays in the tail.
C6_BlocksMatchFirstFit ==
    AllFit => getBlocks(hs) = RefPacking(Len(calls)).blocks

\* C7: getAllocated() is blocks * blockSize and is at least getBytes(),
\* whatever non-negative sizes were asked for.
C7_AllocatedCoversUsed ==
    /\ getAllocated(hs) = hs.blocks * hs.blockSize
    /\ getAllocated(hs) >= getBytes(hs)

\* C8: bytes is the sum of endOffset over the blocks reachable from head.
C8_BytesIsSumOfUsed ==
    hs.bytes = SumUsed

\* A chain of three blocks, each with bytes used.
C8_Witness ==
    /\ Len(Chain) = 3
    /\ \A k \in DOMAIN Chain : heap[Chain[k]].endOffset > 0

\* C9: blocks is the number of blocks reachable from head; tail is the last
\* of them and has no next block; head and tail are null exactly when
\* blocks = 0, as right after construction.
C9_ChainMatchesCounter ==
    /\ hs.blocks = Len(Chain)
    /\ hs.blocks = Cardinality(DOMAIN heap)
    /\ (hs.head = NULL) <=> (hs.blocks = 0)
    /\ (hs.tail = NULL) <=> (hs.blocks = 0)
    /\ hs.tail # NULL =>
          /\ Chain[Len(Chain)] = hs.tail
          /\ heap[hs.tail].nextBlock = NULL
    /\ last.op = "HeapStack" => hs.blocks = 0

\* Three blocks, head and tail apart.
C9_Witness ==
    /\ hs.blocks = 3
    /\ hs.head # hs.tail
    /\ heap[hs.head].nextBlock # hs.tail

\* C10: a newPtr call in which new char[blockSize] fails leaves the object
\* and every block (links, offsets and data, hence every returned range) as
\* they were, and every later newPtr returns what it would have returned.
C10_FailedAllocationChangesNothing ==
    [][ (last'.op = "newPtr" /\ last'.outcome = "bad_alloc") =>
          /\ hs' = hs
          /\ heap' = heap
          /\ calls' = calls
          /\ \A size \in Sizes(hs) :
                newPtr(Machine(hs', heap'), size, TRUE)
                  = newPtr(Machine(hs, heap), size, TRUE) ]_vars

\* A failed newPtr on an arena with a block and a filled range.
C10_Witness ==
    /\ last.op = "newPtr" /\ last.outcome = "bad_alloc"
    /\ hs.blocks >= 1
    /\ written # {}

\* The step is a newPtr call that returned a range.
Returned == Len(calls') = Len(calls) + 1

\* C13: the chain only grows at its end: every step leaves the chain a
\* prefix of the new chain, and leaves the endOffset and the nextBlock of
\* every block that is not the tail as they are.
C13_ChainAppendOnly ==
    [][ /\ Len(Chain) <= Len(Chain')
        /\ SubSeq(Chain', 1, Len(Chain)) = Chain
        /\ \A k \in DOMAIN Chain :
              Chain[k] # hs.tail =>
                /\ heap'[Chain[k]].endOffset = heap[Chain[k]].endOffset
                /\ heap'[Chain[k]].nextBlock = heap[Chain[k]].nextBlock ]_vars

\* Three blocks; the first two stopped being the tail with bytes used and
\* the tail took a range after them.
C13_Witness ==
    /\ Len(Chain) = 3
    /\ Len(calls) = 3
    /\ heap[Chain[1]].endOffset > 0
    /\ heap[Chain[2]].endOffset > heap[Chain[1]].endOffset
    /\ calls[3].ret.block = hs.tail

\* C15: after N >= 1 calls newPtr(0) that returned, on a fresh arena,
\* getBytes() is 0 and getBlocks() is 1.
C15_ZeroSizeCalls ==
    (Len(calls) >= 1 /\ \A i \in DOMAIN calls : calls[i].size = 0) =>
      /\ getBytes(hs) = 0
      /\ getBlocks(hs) = 1

\* As many newPtr(0) calls as the run allows, and at least two.
C15_Witness ==
    /\ Len(calls) = MaxCalls
    /\ Len(calls) >= 2
    /\ \A i \in DOMAIN calls : calls[i].size = 0

\* Every call that returned asked for the same size s, dataSize/2 < s <
\* dataSize.
EqualLargeSizes ==
    /\ Len(calls) >= 1
    /\ \A i \in DOMAIN calls :
          /\ calls[i].size = calls[1].size
          /\ 2 * calls[i].size > hs.dataSize
          /\ calls[i].size < hs.dataSize

\* C16: k calls of one size s, dataSize/2 < s < dataSize: every range
\* starts at offset 0 of a block of its own and lies inside it, getBlocks()
\* is k, getBytes() is k * s, and flatten(length) of the filled ranges is
\* the k patterns one after the other.
C16_OneBlockPerLargeRequest ==
    EqualLargeSizes =>
      /\ getBlocks(hs) = Len(calls)
      /\ getBytes(hs) = Len(calls) * calls[1].size
      /\ \A i \in DOMAIN calls :
            /\ calls[i].ret.offset = 0
            /\ calls[i].ret.block = Chain[i]
            /\ InStorage(i)
      /\ (AllFilled /\ last.op = "flatten" /\ last.outcome = "ok") =>
            /\ last.length = Len(calls) * calls[1].size
            /\ last.buff = ConcatPatterns(Len(calls))

\* A flatten of three filled ranges of dataSize - 1 bytes each.
C16_Witness ==
    /\ EqualLargeSizes
    /\ Len(calls) = 3
    /\ written = {1, 2, 3}
    /\ last.op = "flatten" /\ last.outcome = "ok"

C18_AtMostOneBlockPerCall ==
    [][ /\ hs'.blocks \in {hs.blocks, hs.blocks + 1}
        /\ Cardinality(DOMAIN heap') <= Cardinality(DOMAIN heap) + 1
        /\ last'.op = "newPtr" => last'.outcome \in {"ok", "bad_alloc"} ]_vars

\* A call for more than a whole block has returned, with one block per
\* call so far.
C18_Witness ==
    /\ last.op = "newPtr" /\ last.outcome = "ok"
    /\ Len(calls) = 2
    /\ calls[2].size > hs.blockSize
    /\ calls[1].size > hs.dataSize
    /\ hs.blocks = 2

\* C12: currentData() called while there is no tail ends in an error: it
\* neither returns a pointer nor brings the process down.
C12_CurrentDataGuarded ==
    (last.op = "currentData" /\ hs.tail = NULL) => last.outcome = "error"

\* The addresses in a sequence are all different.
NoRepeats(seq) ==
    \A i, j \in DOMAIN seq : i # j => seq[i] # seq[j]

\* C14: the destructor releases as many blocks as getBlocks() counts, each
\* block once, and leaves no block on the heap; with no block it releases
\* nothing.  Its walk ends after that many rounds.
C14_DestructorReleasesAll ==
    last.op = "~HeapStack" =>
      /\ Len(last.released) = getBlocks(hs)
      /\ NoRepeats(last.released)
      /\ DOMAIN heap = {}
      /\ hs.blocks = 0 => last.released = <<>>

\* An arena of two blocks has been destroyed, head first.
C14_Witness ==
    /\ last.op = "~HeapStack"
    /\ hs.blocks = 2
    /\ hs.head # hs.tail
    /\ last.released = <<hs.head, hs.tail>>

\* The operations that only read the arena.
ReadOnlyOps == {"flatten", "getBytes", "getAllocated", "getBlocks", "currentData"}

\* C20: flatten(length), getBytes, getAllocated, getBlocks and currentData
\* leave the object and every block (links, offsets and data) as they
\* were, so a flatten after them returns what a flatten before them
\* returned and the returned ranges still hold their bytes.
C20_QueriesChangeNothing ==
    [][ last'.op \in ReadOnlyOps =>
          /\ hs' = hs
          /\ heap' = heap
          /\ calls' = calls
          /\ written' = written
          /\ (last.op = "flatten" /\ last.outcome = "ok"
                /\ last'.op = "flatten" /\ last'.outcome = "ok")
               => last'.buff = last.buff ]_vars

\* A flatten of an arena with two blocks and filled ranges has returned.
C20_Witness ==
    /\ last.op = "flatten" /\ last.outcome = "ok"
    /\ hs.blocks = 2
    /\ written # {}
    /\ Len(last.buff) > hs.dataSize

\* C11: a constructor argument that leaves dataSize = blockSize -
\* headerSize at zero or below ends the construction in an error, so no
\* live arena has dataSize <= 0 and newPtr is never called on one.
C11_ConfigRejected ==
    hs.dataSize <= 0 =>
      /\ last.op = "HeapStack"
      /\ last.outcome = "error"
      /\ calls = <<>>

\* No thread is inside newPtr.
Quiescent == \A th \in Threads : ~Inside(th)

\* Two returned ranges with bytes share a byte.
RangesOverlap ==
    \E i, j \in DOMAIN calls :
       i # j /\ calls[i].size > 0 /\ calls[j].size > 0 /\ ~Disjoint(i, j)

\* getBytes() is not the sum of endOffset over the chain.
BytesOff == getBytes(hs) # SumUsed

\* getBlocks() is not the number of blocks reachable from head.
BlocksOff == getBlocks(hs) # Len(Chain)

\* C19: newPtr takes no lock, and it is the interleaving of the accesses of
\* two threads that breaks the arena: as long as no step of one newPtr call
\* fell between the steps of another, the state between calls has disjoint
\* returned ranges, bytes equal to the sum of endOffset over the chain and
\* blocks equal to the number of blocks reachable from head; with
\* interleaved steps the bad state of C19_Witness is reached.
C19_BadOnlyWhenInterleaved ==
    (Quiescent /\ ~raced) => (~RangesOverlap /\ ~BytesOff /\ ~BlocksOff)

\* Both threads have returned from interleaved newPtr calls and the arena is
\* bad in each of the three ways: the two returned ranges overlap, bytes is
\* not the sum of endOffset over the chain, and blocks counts a block that
\* is not reachable from head.
C19_Witness ==
    /\ \A th \in Threads : threads[th].pc = "done"
    /\ raced
    /\ RangesOverlap
    /\ BytesOff
    /\ BlocksOff
    /\ Cardinality(DOMAIN heap) > Len(Chain)

====
